---- MODULE Spec2Model ----
(***************************************************************************)
(* A model of puck-bridge-py: the connection manager (server.py), the      *)
(* protocol decoder (message_parser.py), the event bus (event_system.py)   *)
(* and the game-state store (game_state.py).                               *)
(*                                                                         *)
(* Threads: the accept loop (_run_server), one read loop per accepted peer *)
(* (_handle_client) and the application thread that calls the public      *)
(* operations (send_command, shutdown_server, register_handler, ...).      *)
(***************************************************************************)
EXTENDS Integers, Sequences, FiniteSets, TLC

(***************************************************************************)
(* Bounds of the model.                                                    *)
(***************************************************************************)
MaxPeers == 2      \* peers the accept loop accepts
MaxReads == 2      \* chunks a peer delivers
MaxRegs == 2       \* registrations made by the application
MaxSends == 1      \* send_command calls made by the application
MaxLimit == 3      \* largest N given to get_top_scorers

Peers == 1..MaxPeers
NoConn == 0        \* current_connection is None

(***************************************************************************)
(* JSON values.  A payload is a record [kind, fields, text]: kind is the   *)
(* JSON type, fields the members of an object, text the value of a string. *)
(***************************************************************************)
NoFields == [k \in {} |-> 0]

Obj(f) == [kind |-> "object", fields |-> f, text |-> ""]
JNull == [kind |-> "null", fields |-> NoFields, text |-> ""]
JNumber == [kind |-> "number", fields |-> NoFields, text |-> ""]
JString(s) == [kind |-> "string", fields |-> NoFields, text |-> s]

\* Python's `key in value`: membership of a dict key, substring of a str,
\* TypeError for None and for a number.
Contains(key, v) ==
    CASE v.kind = "object" -> IF key \in DOMAIN v.fields THEN "yes" ELSE "no"
      [] v.kind = "string" -> IF v.text = key THEN "yes" ELSE "no"
      [] OTHER -> "raise"

\* Python's `value.get(key)`: the member or None for a dict, AttributeError
\* for anything else.  None is written "None".
Get(v, key) ==
    IF v.kind # "object" THEN "raise"
    ELSE IF key \in DOMAIN v.fields THEN v.fields[key] ELSE "None"

(***************************************************************************)
(* Inbound lines.  syntax says what json.loads makes of the stripped line: *)
(* "blank" (empty after strip), "invalid" (JSONDecodeError), "value" (a    *)
(* JSON value that is not an object) or "object"; keys are the top-level   *)
(* keys of the object.                                                     *)
(***************************************************************************)
Line(syn, ks, r, t, pl) ==
    [syntax |-> syn, keys |-> ks, role |-> r, type |-> t, payload |-> pl]

EnvelopeKeys == {"role", "type", "payload"}

Envelope(r, t, pl) == Line("object", EnvelopeKeys, r, t, pl)
BlankLine == Line("blank", {}, "", "", JNull)
BadJsonLine == Line("invalid", {}, "", "", JNull)
ArrayLine == Line("value", {}, "", "", JNull)
NoPayloadLine == Line("object", {"role", "type"}, "server", "game_state", JNull)

None == [syntax |-> "None"]

\* MessageParser.parse_message: the message, or None.
parse_message(line) ==
    CASE line.syntax = "invalid" -> None
      [] line.syntax # "object" -> None
      [] ~(EnvelopeKeys \subseteq line.keys) -> None
      [] OTHER -> line

(***************************************************************************)
(* MessageParser._process_single_message: the bus type and data of the one *)
(* dispatch_message call it makes, or the exception that leaves it.        *)
(***************************************************************************)
Route(t, d) == [raised |-> FALSE, type |-> t, data |-> d]
Raises == [raised |-> TRUE, type |-> "", data |-> JNull]

\* payload["category"]: TypeError unless payload is a dict.
Subscript(v, key) == v.fields[key]

process_single_message(message) ==
    LET payload == message.payload
        message_type == message.type
    IN  IF message.role = "server"
        THEN CASE message_type = "event" /\ Contains("category", payload) = "raise"
                    -> Raises
               [] message_type = "event" /\ Contains("category", payload) = "yes"
                    -> IF payload.kind = "object"
                       THEN Route(Subscript(payload, "category"), payload)
                       ELSE Raises
               [] message_type = "game_state"
                    -> Route("game_state", payload)
               [] message_type = "status" /\ payload.kind # "object"
                    -> Raises
               [] message_type = "status" /\ Get(payload, "type") = "performance"
                    -> Route("performance", payload)
               [] OTHER -> Route(message_type, payload)
        ELSE Route(message_type, payload)

(***************************************************************************)
(* GameStateManager.  The store is one record: game_state, players,        *)
(* performance and last_goal_data.  Time is the logical clock `now`.       *)
(* players is a Python dict: roster is the order of its keys, which is the *)
(* order in which they were inserted.                                      *)
(***************************************************************************)
\* A field list that names the client identifier too.
PlayerFieldsWithId ==
    {"client_id", "username", "state", "team", "role", "number", "goals",
     "assists", "ping", "handedness", "country", "steam_id", "patreon_level",
     "admin_level"}

PlayerFields ==
    {"username", "state", "team", "role", "number", "goals", "assists", "ping",
     "handedness", "country", "steam_id", "patreon_level", "admin_level"}

\* Player(client_id=client_id, username="unknown") with the dataclass defaults.
NewPlayer(client_id, t) ==
    [client_id |-> client_id, username |-> "unknown", state |-> "unknown",
     team |-> "none", role |-> "none", number |-> 0, goals |-> 0,
     assists |-> 0, ping |-> 0, handedness |-> "right", country |-> "",
     steam_id |-> "", patreon_level |-> 0, admin_level |-> 0,
     last_updated |-> t]

InitGameState(t) ==
    [phase |-> "unknown", time |-> 0, period |-> 0, blue_score |-> 0,
     red_score |-> 0, last_updated |-> t]

InitPerformance(t) ==
    [current_fps |-> 0, min_fps |-> 0, average_fps |-> 0, max_fps |-> 0,
     last_updated |-> t]

InitStore(t) ==
    [game_state |-> InitGameState(t), players |-> NoFields, roster |-> <<>>,
     performance |-> InitPerformance(t), last_goal_data |-> None]

\* The result of a call on the store: the store afterwards and whether the
\* call raised.
Returned(s) == [store |-> s, raised |-> FALSE]
Threw(s) == [store |-> s, raised |-> TRUE]

\* `d[key] if key in d else old` for a dict d.
Merge(d, key, old) == IF key \in DOMAIN d THEN d[key] ELSE old

GameStateKeys == {"phase", "time", "period", "scores"}

\* An update_game_state that builds a new snapshot from the payload instead
\* of merging it into the current one.
update_game_state_replaces(s, data, t) ==
    CASE data.kind = "object" ->
           LET f == data.fields
               scores == IF "scores" \in DOMAIN f THEN f["scores"] ELSE NoFields
               g == InitGameState(t)
           IN  Returned([s EXCEPT !.game_state =
                   [phase |-> Merge(f, "phase", g.phase),
                    time |-> Merge(f, "time", g.time),
                    period |-> Merge(f, "period", g.period),
                    blue_score |-> Merge(scores, "blue", g.blue_score),
                    red_score |-> Merge(scores, "red", g.red_score),
                    last_updated |-> t]])
      [] OTHER -> Threw(s)

update_game_state(s, data, t) ==
    CASE data.kind = "object" ->
           LET f == data.fields
               scores == IF "scores" \in DOMAIN f THEN f["scores"] ELSE NoFields
               g == s.game_state
           IN  Returned([s EXCEPT !.game_state =
                   [phase |-> Merge(f, "phase", g.phase),
                    time |-> Merge(f, "time", g.time),
                    period |-> Merge(f, "period", g.period),
                    blue_score |-> Merge(scores, "blue", g.blue_score),
                    red_score |-> Merge(scores, "red", g.red_score),
                    last_updated |-> t]])
      [] data.kind = "string" ->
           \* `"phase" in "abc"` is a substring test; indexing a str by a
           \* key raises TypeError.
           IF data.text \in GameStateKeys
           THEN Threw(s)
           ELSE Returned([s EXCEPT !.game_state.last_updated = t])
      [] OTHER -> Threw(s)

update_player(s, client_id, player_data, t) ==
    LET old == IF client_id \in DOMAIN s.players
               THEN s.players[client_id]
               ELSE NewPlayer(client_id, t)
        new == [k \in DOMAIN old |->
                   IF k \in PlayerFields
                   THEN Merge(player_data, k, old[k])
                   ELSE IF k = "last_updated" THEN t ELSE old[k]]
    IN  Returned([s EXCEPT
            !.players = [c \in DOMAIN s.players \cup {client_id} |->
                            IF c = client_id THEN new ELSE s.players[c]],
            !.roster = IF client_id \in DOMAIN s.players
                       THEN @ ELSE Append(@, client_id)])

\* A remove_player that forgets the key only: the record stays in players.
remove_player_keeps_record(s, client_id) ==
    Returned([s EXCEPT !.roster = SelectSeq(@, LAMBDA c : c # client_id)])

remove_player(s, client_id) ==
    Returned([s EXCEPT
        !.players = [c \in DOMAIN s.players \ {client_id} |-> s.players[c]],
        !.roster = SelectSeq(@, LAMBDA c : c # client_id)])

update_performance(s, perf_data, t) ==
    CASE perf_data.kind = "object" ->
           LET f == perf_data.fields
               fps == IF "fps" \in DOMAIN f THEN f["fps"] ELSE NoFields
               q == s.performance
           IN  Returned([s EXCEPT !.performance =
                   [current_fps |-> Merge(fps, "current", q.current_fps),
                    min_fps |-> Merge(fps, "min", q.min_fps),
                    average_fps |-> Merge(fps, "average", q.average_fps),
                    max_fps |-> Merge(fps, "max", q.max_fps),
                    last_updated |-> t]])
      [] perf_data.kind = "string" ->
           IF perf_data.text = "fps"
           THEN Threw(s)
           ELSE Returned([s EXCEPT !.performance.last_updated = t])
      [] OTHER -> Threw(s)

set_last_goal_data(s, goal_data) ==
    Returned([s EXCEPT !.last_goal_data = goal_data])

(***************************************************************************)
(* The derived queries of GameStateManager and Utilities: pure functions   *)
(* of the store.                                                           *)
(***************************************************************************)
get_leading_team(s) ==
    IF s.game_state.blue_score > s.game_state.red_score THEN "blue"
    ELSE IF s.game_state.red_score > s.game_state.blue_score THEN "red"
    ELSE "tied"

\* abs(n)
Abs(n) == IF n < 0 THEN 0 - n ELSE n

\* A get_score_difference that leaves out abs().
get_score_difference_signed(s) ==
    s.game_state.blue_score - s.game_state.red_score

get_score_difference(s) ==
    Abs(s.game_state.blue_score - s.game_state.red_score)

\* str.lower() on the phase strings the store can hold.
Lower(str) ==
    CASE str = "PLAYING" -> "playing"
      [] str = "Intermission" -> "intermission"
      [] str = "GameOver" -> "gameover"
      [] OTHER -> str

get_game_phase(s) == s.game_state.phase

is_game_in_progress(s) ==
    Lower(get_game_phase(s)) \in {"playing", "faceoff", "bluescore", "redscore", "replay"}

is_game_paused(s) == Lower(get_game_phase(s)) \in {"warmup", "periodover"}

\* An is_game_active that lists the phases of a running game.
is_game_active_listed(s) ==
    Lower(get_game_phase(s)) \in
        {"playing", "faceoff", "bluescore", "redscore", "replay", "warmup", "periodover"}

is_game_active(s) == Lower(get_game_phase(s)) \notin {"none", "gameover"}

is_period_over(s) == Lower(get_game_phase(s)) = "periodover"

is_game_over(s) == Lower(get_game_phase(s)) = "gameover"

is_warmup(s) == Lower(get_game_phase(s)) = "warmup"

is_scoring_phase(s) == Lower(get_game_phase(s)) \in {"bluescore", "redscore"}

\* list(players.values()): the players in the order of the dict.
get_all_players(s) == [i \in DOMAIN s.roster |-> s.players[s.roster[i]]]

\* A sort that puts a player before the players with the same goals.
InsertBeforeTies(sorted, player) ==
    LET n == Cardinality({ i \in DOMAIN sorted : sorted[i].goals > player.goals })
    IN  SubSeq(sorted, 1, n) \o <<player>> \o SubSeq(sorted, n + 1, Len(sorted))

\* sorted(.., key=goals, reverse=True) is stable: a player goes after every
\* player already placed whose goals are at least theirs.
InsertByGoals(sorted, player) ==
    LET n == Cardinality({ i \in DOMAIN sorted : sorted[i].goals >= player.goals })
    IN  SubSeq(sorted, 1, n) \o <<player>> \o SubSeq(sorted, n + 1, Len(sorted))

RECURSIVE SortedByGoals(_)
SortedByGoals(players) ==
    IF players = <<>> THEN <<>>
    ELSE InsertByGoals(SortedByGoals(SubSeq(players, 1, Len(players) - 1)),
                       players[Len(players)])

\* seq[:limit]
Slice(seq, limit) ==
    IF limit >= 0
    THEN SubSeq(seq, 1, IF limit < Len(seq) THEN limit ELSE Len(seq))
    ELSE SubSeq(seq, 1, Len(seq) + limit)

get_top_scorers(s, limit) == Slice(SortedByGoals(get_all_players(s)), limit)

(***************************************************************************)
(* The built-in handlers of MessageParser.  Each takes the store, the      *)
(* dispatched data and the time, and yields the store afterwards and       *)
(* whether the handler raised.  The player member of an event is a map of  *)
(* fields or JNull.                                                        *)
(***************************************************************************)
handle_game_state(s, data, t) == update_game_state(s, data, t)

handle_performance(s, data, t) == update_performance(s, data, t)

handle_player_spawned(s, data, t) ==
    CASE Contains("player", data) = "raise" -> Threw(s)
      [] Contains("player", data) = "no" -> Returned(s)
      [] data.kind # "object" -> Threw(s)
      [] OTHER ->
           LET player_data == data.fields["player"]
           IN  IF player_data = JNull
               THEN Threw(s)           \* None has no get
               ELSE IF "clientId" \in DOMAIN player_data
               THEN update_player(s, player_data["clientId"], player_data, t)
               ELSE Returned(s)

handle_player_despawned(s, data, t) ==
    CASE Contains("player", data) = "raise" -> Threw(s)
      [] Contains("player", data) = "no" -> Returned(s)
      [] data.kind # "object" -> Threw(s)
      [] OTHER ->
           LET player_data == data.fields["player"]
           IN  IF player_data = JNull
               THEN Threw(s)           \* None has no get
               ELSE IF "clientId" \in DOMAIN player_data
               THEN remove_player(s, player_data["clientId"])
               ELSE Returned(s)

\* {key: value} updated with data["player"] when the event carries one.
WithNested(f, key, value) ==
    IF "player" \in DOMAIN f THEN f["player"] @@ (key :> value) ELSE (key :> value)

handle_player_state_changed(s, data, t) ==
    IF data.kind # "object"
    THEN Threw(s)
    ELSE LET f == data.fields
             new_state == Merge(f, "newState", "None")
         IN  IF "clientId" \notin DOMAIN f
             THEN Returned(s)
             ELSE IF "player" \in DOMAIN f /\ f["player"] = JNull
             THEN Threw(s)             \* dict.update(None)
             ELSE update_player(s, f["clientId"], WithNested(f, "state", new_state), t)

handle_player_property_changed(s, data, t) ==
    IF data.kind # "object"
    THEN Threw(s)
    ELSE LET f == data.fields
             property_name == Merge(f, "property", "None")
             new_value == Merge(f, "newValue", "None")
         IN  IF "clientId" \notin DOMAIN f
             THEN Returned(s)
             ELSE IF "player" \in DOMAIN f /\ f["player"] = JNull
             THEN Threw(s)             \* dict.update(None)
             ELSE update_player(s, f["clientId"],
                                WithNested(f, property_name, new_value), t)

\* bool(value) of a JSON value.
Truthy(v) ==
    CASE v.kind = "object" -> DOMAIN v.fields # {}
      [] v.kind = "string" -> v.text # ""
      [] v.kind = "number" -> TRUE
      [] OTHER -> FALSE

\* The "players" member of a goal event is a JSON value; its "scores" member,
\* when present, is an object of integers.  The log line is built by
\* data.get("players", {}).get("goal") and goal_player.get("username", ..),
\* which raise when `players` or a truthy `goal` is not an object, before the
\* store is touched.
handle_goal_scored(s, data, t) ==
    IF data.kind # "object"
    THEN Threw(s)
    ELSE LET f == data.fields
             scores == Merge(f, "scores", NoFields)
             players == Merge(f, "players", Obj(NoFields))
             goal_player == IF players.kind = "object" /\ "goal" \in DOMAIN players.fields
                            THEN players.fields["goal"] ELSE JNull
             scored == IF DOMAIN scores # {}
                       THEN update_game_state(s, Obj([scores |-> scores]), t).store
                       ELSE s
         IN  IF players.kind # "object"
             THEN Threw(s)
             ELSE IF Truthy(goal_player) /\ goal_player.kind # "object"
             THEN Threw(s)
             ELSE set_last_goal_data(scored, data)

\* MessageParser._register_builtin_handlers, in its order.
BuiltinTypes ==
    <<"game_state", "performance", "player_spawned", "player_despawned",
      "player_state_changed", "player_property_changed", "goal_scored">>

BuiltinHandlers == { "builtin:" \o BuiltinTypes[i] : i \in DOMAIN BuiltinTypes }

\* Handlers the application registers: one that returns and one that raises.
UserHandlers == {"observer", "faulty"}

\* The call handler(data) (or handler(message_type, data) for a global
\* handler) made by dispatch_message.
CallHandler(h, s, data, t) ==
    CASE h = "builtin:game_state" -> handle_game_state(s, data, t)
      [] h = "builtin:performance" -> handle_performance(s, data, t)
      [] h = "builtin:player_spawned" -> handle_player_spawned(s, data, t)
      [] h = "builtin:player_despawned" -> handle_player_despawned(s, data, t)
      [] h = "builtin:player_state_changed" -> handle_player_state_changed(s, data, t)
      [] h = "builtin:player_property_changed" ->
             handle_player_property_changed(s, data, t)
      [] h = "builtin:goal_scored" -> handle_goal_scored(s, data, t)
      [] h = "faulty" -> Threw(s)
      [] OTHER -> Returned(s)

(***************************************************************************)
(* EventSystem.  handlers maps a message type to the list of its handlers  *)
(* (its domain is the set of keys of _handlers); global_handlers is the    *)
(* list _global_handlers.                                                  *)
(***************************************************************************)
\* A registration that puts the handler at the head of the list.
RegisterFirst(hs, message_type, handler) ==
    IF message_type \in DOMAIN hs
    THEN [hs EXCEPT ![message_type] = <<handler>> \o @]
    ELSE hs @@ (message_type :> <<handler>>)

register_handler(hs, message_type, handler) ==
    IF message_type \in DOMAIN hs
    THEN [hs EXCEPT ![message_type] = Append(@, handler)]
    ELSE hs @@ (message_type :> <<handler>>)

register_global_handler(gs, handler) == Append(gs, handler)

\* A remove that drops the last element equal to x.
RemoveLast(seq, x) ==
    IF \E i \in DOMAIN seq : seq[i] = x
    THEN LET i == CHOOSE i \in DOMAIN seq :
                     seq[i] = x /\ \A j \in (i + 1)..Len(seq) : seq[j] # x
         IN  SubSeq(seq, 1, i - 1) \o SubSeq(seq, i + 1, Len(seq))
    ELSE seq

\* list.remove(x): drops the first element equal to x.
RemoveFirst(seq, x) ==
    IF \E i \in DOMAIN seq : seq[i] = x
    THEN LET i == CHOOSE i \in DOMAIN seq :
                     seq[i] = x /\ \A j \in 1..(i - 1) : seq[j] # x
         IN  SubSeq(seq, 1, i - 1) \o SubSeq(seq, i + 1, Len(seq))
    ELSE seq

unregister_handler(hs, message_type, handler) ==
    IF message_type \in DOMAIN hs
    THEN [hs EXCEPT ![message_type] = RemoveFirst(@, handler)]
    ELSE hs

unregister_global_handler(gs, handler) == RemoveFirst(gs, handler)

\* EventSystem.__init__ followed by MessageParser._register_builtin_handlers.
InitHandlers ==
    [t \in { BuiltinTypes[i] : i \in DOMAIN BuiltinTypes } |-> <<"builtin:" \o t>>]

(***************************************************************************)
(* State.                                                                  *)
(***************************************************************************)
VARIABLES
    shutdown_flag,        \* PuckBridge.shutdown_flag
    current_connection,   \* PuckBridge.current_connection: a peer or NoConn
    server_pc,            \* where the accept loop of _run_server stands
    accepted,             \* number of peers accepted so far
    handlers,             \* EventSystem._handlers
    global_handlers,      \* EventSystem._global_handlers
    store,                \* the GameStateManager
    now,                  \* the clock read by datetime.now()
    pc,                   \* pc[p]: where the read loop of peer p stands
    sock,                 \* sock[p]: the bridge's end of the connection of p
    rd,                   \* rd[p]: the chunk peer p's loop is handling
    disp,                 \* disp[p]: the dispatch_message call of peer p
    hist,                 \* hist[p]: what the read loop of p has done so far
    app                   \* what the application thread has done so far

vars == <<shutdown_flag, current_connection, server_pc, accepted, handlers,
          global_handlers, store, now, pc, sock, rd, disp, hist, app>>

\* No call of the store is under way in the thread: `step` is the line of
\* update_player or remove_player the thread stands at, `id` the client id of
\* the call, `orphan` whether the record its `player` variable refers to has
\* since been replaced in, or deleted from, the players dict.
NoCall == [step |-> "none", id |-> 0, orphan |-> FALSE]

NoDispatch ==
    [type |-> "", data |-> JNull, stage |-> "end", i |-> 0, seq |-> 0,
     call |-> NoCall]

\* The record of a send_command call: its arguments, the peer that was
\* current when it was called, what the try block did, the result, and the current peer afterwards.
NoSend == [called |-> FALSE, name |-> "", payload |-> None, target |-> NoConn,
           outcome |-> "", ret |-> FALSE, raised |-> FALSE, wrote |-> FALSE,
           envelope |-> None, after |-> NoConn]

InitHist ==
    [out |-> <<>>,          \* what became of each line of the chunk, in order
     seq |-> 0,             \* stream index of the message of the last handler call
     why |-> "",            \* why the read loop ended
     msg |-> None,          \* the last envelope given to _process_single_message
     routed |-> None,       \* the type and data it was dispatched with
     res |-> "none",        \* what became of it: running, returned, raised
     trace |-> <<>>,        \* the handlers its dispatch has called, in order
     expected |-> <<>>,     \* the handlers registered when its dispatch began
     failed |-> 0]          \* handler calls of its dispatch that raised

Init ==
    /\ shutdown_flag = FALSE
    /\ current_connection = NoConn
    /\ server_pc = "idle"
    /\ accepted = 0
    /\ handlers = InitHandlers
    /\ global_handlers = <<>>
    /\ now = 0
    /\ store = InitStore(0)
    /\ pc = [p \in Peers |-> "unborn"]
    /\ sock = [p \in Peers |-> "none"]
    /\ rd = [p \in Peers |-> [reads |-> 0, chunk |-> <<>>, k |-> 0, base |-> 0]]
    /\ disp = [p \in Peers |-> NoDispatch]
    /\ hist = [p \in Peers |-> InitHist]
    /\ app = [regs |-> 0, sends |-> 0, last |-> NoSend]

(***************************************************************************)
(* The application thread: registration, start, send_command, shutdown.    *)
(***************************************************************************)
appVars == <<shutdown_flag, current_connection, server_pc, accepted, store, now,
             pc, sock, rd, disp, hist>>

RegisterHandler(message_type, handler) ==
    /\ app.regs < MaxRegs
    /\ handlers' = register_handler(handlers, message_type, handler)
    /\ app' = [app EXCEPT !.regs = @ + 1]
    /\ UNCHANGED <<appVars, global_handlers>>

RegisterGlobalHandler(handler) ==
    /\ app.regs < MaxRegs
    /\ global_handlers' = register_global_handler(global_handlers, handler)
    /\ app' = [app EXCEPT !.regs = @ + 1]
    /\ UNCHANGED <<appVars, handlers>>

UnregisterHandler(message_type, handler) ==
    /\ handlers' = unregister_handler(handlers, message_type, handler)
    /\ handlers' # handlers
    /\ UNCHANGED <<appVars, global_handlers, app>>

UnregisterGlobalHandler(handler) ==
    /\ global_handlers' = unregister_global_handler(global_handlers, handler)
    /\ global_handlers' # global_handlers
    /\ UNCHANGED <<appVars, handlers, app>>

\* PuckBridge.start_server: the accept loop starts running.
StartServer ==
    /\ server_pc = "idle"
    /\ server_pc' = "loop"
    /\ UNCHANGED <<shutdown_flag, current_connection, accepted, handlers,
                   global_handlers, store, now, pc, sock, rd, disp, hist, app>>

\* PuckBridge.shutdown_server and PuckBridge._signal_handler.
ShutdownServer ==
    /\ ~shutdown_flag
    /\ shutdown_flag' = TRUE
    /\ UNCHANGED <<current_connection, server_pc, accepted, handlers,
                   global_handlers, store, now, pc, sock, rd, disp, hist, app>>

\* PuckBridge.is_connected.
is_connected == current_connection # NoConn

\* The envelope send_command builds: the caller's fields with "command" first,
\* so a "command" field of the caller's map overrides the name.
\* `payload or {}`: the default None becomes the empty dict.
OrEmpty(payload) == IF payload = None THEN NoFields ELSE payload

CommandEnvelope(command_name, payload) ==
    [role |-> "client", type |-> "command",
     payload |-> OrEmpty(payload) @@ [command |-> command_name]]

\* What the except clause of send_command does with an exception: it is
\* caught, so nothing leaves the call.
SendRaises(failed) == FALSE

\* A send_command whose except clause leaves the failed peer attached.
AfterSendKeepsPeer(conn, outcome) == conn

\* The current peer after send_command: cleared by the except clause.
AfterSend(conn, outcome) ==
    IF conn # NoConn /\ outcome # "sent" THEN NoConn ELSE conn

\* send_command(command_name, payload) where `outcome` is what the body of
\* the try block does: "sent", "build_error" (the envelope cannot be built or
\* serialized) or "write_error" (socket.send raises).
SendCommand(command_name, payload, outcome) ==
    /\ app.sends < MaxSends
    /\ LET conn == current_connection
           ok == conn # NoConn /\ outcome = "sent"
       IN  /\ current_connection' = AfterSend(conn, outcome)
           /\ app' = [app EXCEPT
                 !.sends = @ + 1,
                 !.last = [called |-> TRUE, name |-> command_name,
                           payload |-> payload, target |-> conn,
                           outcome |-> outcome,
                           ret |-> ok,
                           raised |-> SendRaises(conn # NoConn /\ ~ok),
                           wrote |-> ok,
                           envelope |-> IF ok
                                        THEN CommandEnvelope(command_name, payload)
                                        ELSE None,
                           after |-> AfterSend(conn, outcome)]]
    /\ UNCHANGED <<shutdown_flag, server_pc, accepted, handlers, global_handlers,
                   store, now, pc, sock, rd, disp, hist>>

(***************************************************************************)
(* The accept loop of PuckBridge._run_server.                              *)
(***************************************************************************)
serverVars == <<shutdown_flag, current_connection, handlers, global_handlers,
                store, now, rd, disp, hist, app>>

\* A loop that never looks at the flag (`while True`).
LoopIgnoresFlag(flag) == TRUE

\* `while not self.shutdown_flag` of a loop that reads the flag as `flag`.
LoopContinues(flag) == ~flag

ServerTest ==
    /\ server_pc = "loop"
    /\ server_pc' = IF LoopContinues(shutdown_flag) THEN "select" ELSE "done"
    /\ UNCHANGED <<serverVars, accepted, pc, sock>>

\* select times out: nothing to accept.
AcceptTimeout ==
    /\ server_pc = "select"
    /\ server_pc' = "loop"
    /\ UNCHANGED <<serverVars, accepted, pc, sock>>

\* accept returns a connection and its handler thread is started.
Accept(limit) ==
    /\ server_pc = "select"
    /\ accepted < limit
    /\ accepted' = accepted + 1
    /\ pc' = [pc EXCEPT ![accepted + 1] = "spawned"]
    /\ sock' = [sock EXCEPT ![accepted + 1] = "open"]
    /\ server_pc' = "loop"
    /\ UNCHANGED serverVars

\* What the accept loop does when select, accept or Thread.start raises.
AfterAcceptError == "done"

AcceptError ==
    /\ server_pc = "select"
    /\ server_pc' = AfterAcceptError
    /\ UNCHANGED <<serverVars, accepted, pc, sock>>

(***************************************************************************)
(* The read loop of PuckBridge._handle_client for peer p.                  *)
(***************************************************************************)
Leave(p, reason) ==
    /\ pc' = [pc EXCEPT ![p] = "close"]
    /\ hist' = [hist EXCEPT ![p].why = reason]

\* with self.connection_lock: self.current_connection = conn
Attach(p) ==
    /\ pc[p] = "spawned"
    /\ current_connection' = p
    /\ pc' = [pc EXCEPT ![p] = "loop"]
    /\ UNCHANGED <<shutdown_flag, server_pc, accepted, handlers, global_handlers,
                   store, now, sock, rd, disp, hist, app>>

LoopTest(p) ==
    /\ pc[p] = "loop"
    /\ IF LoopContinues(shutdown_flag)
       THEN pc' = [pc EXCEPT ![p] = "poll"] /\ UNCHANGED hist
       ELSE Leave(p, "shutdown")
    /\ UNCHANGED <<shutdown_flag, current_connection, server_pc, accepted, handlers,
                   global_handlers, store, now, sock, rd, disp, app>>

\* select times out: nothing to read.
RecvTimeout(p) ==
    /\ pc[p] = "poll"
    /\ pc' = [pc EXCEPT ![p] = "loop"]
    /\ UNCHANGED <<shutdown_flag, current_connection, server_pc, accepted, handlers,
                   global_handlers, store, now, sock, rd, disp, hist, app>>

\* recv returns a chunk, which decodes and goes to handle_message.
RecvData(p, chunks, limit) ==
    /\ pc[p] = "poll"
    /\ rd[p].reads < limit
    /\ \E c \in chunks :
          rd' = [rd EXCEPT ![p] = [reads |-> @.reads + 1, chunk |-> c, k |-> 0,
                                   base |-> @.base + Len(@.chunk)]]
    /\ pc' = [pc EXCEPT ![p] = "lines"]
    /\ hist' = [hist EXCEPT ![p].out = <<>>]
    /\ UNCHANGED <<shutdown_flag, current_connection, server_pc, accepted, handlers,
                   global_handlers, store, now, sock, disp, app>>

\* recv returns no data ("eof"), raises ConnectionResetError ("reset"), or
\* select, recv or decode raises another exception ("error").
RecvEnd(p, reason) ==
    /\ pc[p] = "poll"
    /\ Leave(p, reason)
    /\ UNCHANGED <<shutdown_flag, current_connection, server_pc, accepted, handlers,
                   global_handlers, store, now, sock, rd, disp, app>>

(***************************************************************************)
(* MessageParser.handle_message on the chunk of peer p, a line at a time.  *)
(***************************************************************************)
\* A for loop that walks the lines from the last to the first.
NextLineFromEnd(chunk, k) == Len(chunk) - k

\* The position in the chunk of the line the for loop takes after k lines.
NextLine(chunk, k) == k + 1

\* The handlers a dispatch of message_type finds registered.
Registered(gs, hs, message_type) ==
    gs \o (IF message_type \in DOMAIN hs THEN hs[message_type] ELSE <<>>)

HandleLine(p) ==
    /\ pc[p] = "lines"
    /\ rd[p].k < Len(rd[p].chunk)
    /\ LET pos == NextLine(rd[p].chunk, rd[p].k)
           line == rd[p].chunk[pos]
           message == IF line.syntax = "blank" THEN None ELSE parse_message(line)
           r == process_single_message(message)
       IN  /\ rd' = [rd EXCEPT ![p].k = @ + 1]
           /\ IF message = None
              THEN /\ hist' = [hist EXCEPT ![p].out = Append(@, "skipped")]
                   /\ UNCHANGED <<pc, disp>>
              ELSE IF r.raised
              THEN /\ hist' = [hist EXCEPT ![p].out = Append(@, "raised"),
                                           ![p].msg = message,
                                           ![p].routed = None,
                                           ![p].res = "raised",
                                           ![p].trace = <<>>,
                                           ![p].expected = <<>>,
                                           ![p].failed = 0,
                                           ![p].why = "exception"]
                   /\ pc' = [pc EXCEPT ![p] = "close"]
                   /\ UNCHANGED disp
              ELSE /\ hist' = [hist EXCEPT ![p].msg = message,
                                           ![p].routed = [type |-> r.type, data |-> r.data],
                                           ![p].res = "running",
                                           ![p].trace = <<>>,
                                           ![p].expected =
                                               Registered(global_handlers, handlers, r.type),
                                           ![p].failed = 0]
                   /\ disp' = [disp EXCEPT ![p] =
                                  [type |-> r.type, data |-> r.data, stage |-> "global",
                                   i |-> 0, seq |-> rd[p].base + pos,
                                   call |-> NoCall]]
                   /\ pc' = [pc EXCEPT ![p] = "dispatch"]
    /\ UNCHANGED <<shutdown_flag, current_connection, server_pc, accepted, handlers,
                   global_handlers, store, now, sock, app>>

\* The for loop over the lines is exhausted: handle_message returns.
HandleReturn(p) ==
    /\ pc[p] = "lines"
    /\ rd[p].k = Len(rd[p].chunk)
    /\ pc' = [pc EXCEPT ![p] = "loop"]
    /\ UNCHANGED <<shutdown_flag, current_connection, server_pc, accepted, handlers,
                   global_handlers, store, now, sock, rd, disp, hist, app>>

(***************************************************************************)
(* EventSystem.dispatch_message, a handler call at a time.  Each for loop  *)
(* walks its list by index, as a Python list iterator does.                *)
(***************************************************************************)
NoHandler == [h |-> "", stage |-> "end", i |-> 0]

\* What a typed handler of the application does to the registry while it
\* runs: "leaver" unregisters itself from the type it was called for,
\* "joiner" registers "observer" for it; the others leave the registry alone.
RegistryAfter(h, hs, message_type) ==
    CASE h = "leaver" -> unregister_handler(hs, message_type, "leaver")
      [] h = "joiner" -> register_handler(hs, message_type, "observer")
      [] OTHER -> hs

\* A dispatch that walks each list from its newest handler to its oldest.
NextHandlerNewestFirst(d, gs, hs) ==
    IF d.stage = "global" /\ d.i < Len(gs)
    THEN [h |-> gs[Len(gs) - d.i], stage |-> "global", i |-> d.i + 1]
    ELSE LET j == IF d.stage = "global" THEN 0 ELSE d.i
             l == IF d.type \in DOMAIN hs THEN hs[d.type] ELSE <<>>
         IN  IF d.stage # "end" /\ j < Len(l)
             THEN [h |-> l[Len(l) - j], stage |-> "typed", i |-> j + 1]
             ELSE NoHandler

NextHandler(d, gs, hs) ==
    IF d.stage = "global" /\ d.i < Len(gs)
    THEN [h |-> gs[d.i + 1], stage |-> "global", i |-> d.i + 1]
    ELSE LET j == IF d.stage = "global" THEN 0 ELSE d.i
             l == IF d.type \in DOMAIN hs THEN hs[d.type] ELSE <<>>
         IN  IF d.stage # "end" /\ j < Len(l)
             THEN [h |-> l[j + 1], stage |-> "typed", i |-> j + 1]
             ELSE NoHandler

\* A dispatch_message without the try/except around the handler call.
HandlerErrorEscapes(raised) == raised

\* Whether an exception raised by a handler leaves dispatch_message: each
\* call is wrapped in try/except Exception, so it does not.
HandlerErrorPropagates(raised) == FALSE

CallNext(p) ==
    /\ pc[p] = "dispatch"
    /\ LET n == NextHandler(disp[p], global_handlers, handlers)
           r == CallHandler(n.h, store, disp[p].data, now)
       IN  /\ n.stage # "end"
           /\ store' = r.store
           /\ handlers' = RegistryAfter(n.h, handlers, disp[p].type)
           /\ disp' = [disp EXCEPT ![p].stage = n.stage, ![p].i = n.i]
           /\ IF HandlerErrorPropagates(r.raised)
              THEN /\ pc' = [pc EXCEPT ![p] = "close"]
                   /\ hist' = [hist EXCEPT ![p].trace = Append(@, n.h),
                                           ![p].seq = disp[p].seq,
                                           ![p].failed = @ + 1,
                                           ![p].res = "raised",
                                           ![p].out = Append(@, "raised"),
                                           ![p].why = "exception"]
              ELSE /\ pc' = pc
                   /\ hist' = [hist EXCEPT ![p].trace = Append(@, n.h),
                                           ![p].seq = disp[p].seq,
                                           ![p].failed =
                                               IF r.raised THEN @ + 1 ELSE @]
    /\ UNCHANGED <<shutdown_flag, current_connection, server_pc, accepted,
                   global_handlers, now, sock, rd, app>>

\* Both for loops are exhausted: dispatch_message and _process_single_message
\* return to the loop over the lines.
DispatchReturn(p) ==
    /\ pc[p] = "dispatch"
    /\ NextHandler(disp[p], global_handlers, handlers).stage = "end"
    /\ pc' = [pc EXCEPT ![p] = "lines"]
    /\ disp' = [disp EXCEPT ![p] = NoDispatch]
    /\ hist' = [hist EXCEPT ![p].res = "returned",
                            ![p].out = Append(@, "dispatched")]
    /\ UNCHANGED <<shutdown_flag, current_connection, server_pc, accepted, handlers,
                   global_handlers, store, now, sock, rd, app>>

(***************************************************************************)
(* The end of _handle_client: `with conn` closes the socket, then the      *)
(* current-peer reference is cleared if it is still this peer.             *)
(***************************************************************************)
Close(p) ==
    /\ pc[p] = "close"
    /\ sock' = [sock EXCEPT ![p] = "closed"]
    /\ pc' = [pc EXCEPT ![p] = "detach"]
    /\ UNCHANGED <<shutdown_flag, current_connection, server_pc, accepted, handlers,
                   global_handlers, store, now, rd, disp, hist, app>>

\* An exit that leaves the reference as it is.
KeepsReference(current, p) == FALSE

\* An exit that clears the reference whichever peer it holds.
ClearsAnyPeer(current, p) == TRUE

\* if self.current_connection == conn
StillCurrent(current, p) == current = p

Detach(p) ==
    /\ pc[p] = "detach"
    /\ current_connection' =
          IF StillCurrent(current_connection, p) THEN NoConn ELSE current_connection
    /\ pc' = [pc EXCEPT ![p] = "done"]
    /\ UNCHANGED <<shutdown_flag, server_pc, accepted, handlers, global_handlers,
                   store, now, sock, rd, disp, hist, app>>

(***************************************************************************)
(* Inputs.                                                                 *)
(***************************************************************************)
WarmupLine == Envelope("server", "game_state", Obj([phase |-> "warmup"]))
PeriodLine == Envelope("server", "game_state", Obj([period |-> 2]))
GoalLine ==
    Envelope("server", "event",
             Obj([category |-> "goal_scored", scores |-> [blue |-> 1, red |-> 0]]))
PerfLine ==
    Envelope("server", "status", Obj([type |-> "performance", fps |-> [current |-> 60]]))
PingLine == Envelope("client", "ping", Obj(NoFields))
NullEventLine == Envelope("server", "event", JNull)

\* The multi-line chunk of the specification's example.
ExampleChunk == <<WarmupLine, BadJsonLine, PeriodLine>>

\* Messages that change the store.
Event(category, f) ==
    Envelope("server", "event", Obj(f @@ [category |-> category]))

ScoreBlueLine ==
    Envelope("server", "game_state", Obj([scores |-> [blue |-> 2], arena |-> "x"]))
ScoreRedLine == Envelope("server", "game_state", Obj([scores |-> [red |-> 3]]))
NegativeLine == Envelope("server", "game_state", Obj([scores |-> [red |-> 0 - 1]]))
PhaseLine ==
    Envelope("server", "game_state", Obj([phase |-> "Intermission", time |-> 5]))
GoalNoScoresLine == Event("goal_scored", [team |-> "blue"])
GoalNullPlayersLine ==
    Event("goal_scored", [scores |-> [blue |-> 4], players |-> JNull])
Spawn1 ==
    Event("player_spawned",
          [player |-> [clientId |-> 1, username |-> "ann", goals |-> 2,
                       state |-> "play"]])
Spawn2 == Event("player_spawned", [player |-> [clientId |-> 2, goals |-> 2]])
Spawn3 == Event("player_spawned", [player |-> [clientId |-> 3, goals |-> 5]])
Despawn1 == Event("player_despawned", [player |-> [clientId |-> 1]])
State1 == Event("player_state_changed", [clientId |-> 1, newState |-> "spectating"])
StateNoNew1 == Event("player_state_changed", [clientId |-> 1])
Prop2 ==
    Event("player_property_changed",
          [clientId |-> 2, property |-> "goals", newValue |-> 7])
PropNone1 == Event("player_property_changed", [clientId |-> 1])

StoreChunks ==
    { <<WarmupLine, ScoreBlueLine>>, <<ScoreRedLine>>, <<NegativeLine>>,
      <<PhaseLine>>, <<GoalLine>>, <<GoalNoScoresLine>>, <<GoalNullPlayersLine>>,
      <<Spawn1, Spawn2, Spawn3>>, <<Despawn1, StateNoNew1>>, <<Despawn1>>,
      <<State1>>, <<StateNoNew1>>, <<Prop2>>, <<PropNone1>> }

Roles == {"server", "client"}
Types == {"event", "game_state", "status", "ping"}
Payloads ==
    { Obj(f) : f \in { NoFields, [phase |-> "playing"], [category |-> "goal_scored"],
                       [type |-> "performance"], [type |-> "other"] } }
    \cup {JNull, JNumber, JString("abc"), JString("category")}

AllEnvelopes == { Envelope(r, t, pl) : r \in Roles, t \in Types, pl \in Payloads }

MalformedLines == {BlankLine, BadJsonLine, ArrayLine, NoPayloadLine}

\* Chunks of one line: every envelope and every malformed line.
RouteChunks == { <<l>> : l \in AllEnvelopes \cup MalformedLines \cup {GoalLine, PerfLine} }

NumberStateLine == Envelope("server", "game_state", JNumber)

BusChunks ==
    {ExampleChunk, <<WarmupLine>>, <<PeriodLine, PingLine>>,
     <<NullEventLine, WarmupLine>>, <<NoPayloadLine, WarmupLine>>,
     <<ArrayLine, BlankLine, PeriodLine>>, <<NumberStateLine>>}

LiveChunks == {<<WarmupLine>>}

RegTypes == {"game_state"}

CommandNames == {"system_message"}
CommandPayloads == {[message |-> "hi"]}
SendOutcomes == {"sent", "build_error", "write_error"}

\* The payload argument of send_command: the default None, an empty map, a
\* map of extra fields, and a map with a field named command.
SendPayloads ==
    {None, NoFields, [message |-> "hi"],
     [command |-> "restart_game", reason |-> "again"]}

(***************************************************************************)
(* Specifications.                                                         *)
(***************************************************************************)
ServerStep(limit) ==
    \/ ServerTest
    \/ AcceptTimeout
    \/ Accept(limit)
    \/ AcceptError

PeerStep(p, chunks, limit) ==
    \/ Attach(p)
    \/ LoopTest(p)
    \/ RecvTimeout(p)
    \/ RecvData(p, chunks, limit)
    \/ \E reason \in {"eof", "reset", "error"} : RecvEnd(p, reason)
    \/ HandleLine(p)
    \/ HandleReturn(p)
    \/ CallNext(p)
    \/ DispatchReturn(p)
    \/ Close(p)
    \/ Detach(p)

\* The application registers its handlers before it starts the server, as
\* main() of examples/example_usage.py does.
Setup ==
    /\ server_pc = "idle"
    /\ \/ \E t \in RegTypes, h \in UserHandlers : RegisterHandler(t, h)
       \/ \E h \in UserHandlers : RegisterGlobalHandler(h)
       \/ \E t \in RegTypes, h \in UserHandlers : UnregisterHandler(t, h)
       \/ \E h \in UserHandlers : UnregisterGlobalHandler(h)

Send ==
    \E c \in CommandNames, f \in CommandPayloads, o \in SendOutcomes :
        SendCommand(c, f, o)

\* The read loop of a peer that delivers no data: it attaches, polls, and
\* ends by a close, a reset, an error or the shutdown flag.
ConnStep(p) ==
    \/ Attach(p)
    \/ LoopTest(p)
    \/ RecvTimeout(p)
    \/ \E reason \in {"eof", "reset", "error"} : RecvEnd(p, reason)
    \/ Close(p)
    \/ Detach(p)

\* The connection manager: the accept loop, the peers' read loops and the
\* application's send_command and shutdown_server.
Next ==
    \/ StartServer
    \/ ShutdownServer
    \/ Send
    \/ ServerStep(MaxPeers)
    \/ \E p \in Peers : ConnStep(p)

Spec == Init /\ [][Next]_vars

\* The decoder and the event bus: the bridge serving one peer, with the
\* handlers the application set up.
NextBus ==
    \/ Setup
    \/ StartServer
    \/ ShutdownServer
    \/ ServerStep(1)
    \/ \E p \in Peers : PeerStep(p, BusChunks, MaxReads)

SpecBus == Init /\ [][NextBus]_vars

\* The routing of one line of one peer.
NextRoute ==
    \/ StartServer
    \/ ShutdownServer
    \/ ServerStep(1)
    \/ \E p \in Peers : PeerStep(p, RouteChunks, 1)

SpecRoute == Init /\ [][NextRoute]_vars

\* Commands: the application sends commands with every kind of payload to
\* the peer the bridge serves.
SendAny ==
    \E c \in CommandNames, f \in SendPayloads, o \in SendOutcomes :
        SendCommand(c, f, o)

NextSend ==
    \/ StartServer
    \/ ShutdownServer
    \/ SendAny
    \/ ServerStep(1)
    \/ \E p \in Peers : ConnStep(p)

SpecSend == Init /\ [][NextSend]_vars

\* The registry: the application registers and unregisters handlers, on top
\* of registrations it may have made before, then starts the server, and one
\* peer delivers one message.
PriorGlobal == {<<>>, <<"observer", "faulty">>}

PriorTyped ==
    {InitHandlers,
     register_handler(register_handler(InitHandlers, "game_state", "observer"),
                      "game_state", "faulty")}

InitRegistry ==
    /\ shutdown_flag = FALSE
    /\ current_connection = NoConn
    /\ server_pc = "idle"
    /\ accepted = 0
    /\ handlers \in PriorTyped
    /\ global_handlers \in PriorGlobal
    /\ now = 0
    /\ store = InitStore(0)
    /\ pc = [p \in Peers |-> "unborn"]
    /\ sock = [p \in Peers |-> "none"]
    /\ rd = [p \in Peers |-> [reads |-> 0, chunk |-> <<>>, k |-> 0, base |-> 0]]
    /\ disp = [p \in Peers |-> NoDispatch]
    /\ hist = [p \in Peers |-> InitHist]
    /\ app = [regs |-> 0, sends |-> 0, last |-> NoSend]

NextRegistry ==
    \/ Setup
    \/ StartServer
    \/ ShutdownServer
    \/ ServerStep(1)
    \/ \E p \in Peers : PeerStep(p, LiveChunks, 1)

SpecRegistry == InitRegistry /\ [][NextRegistry]_vars

\* The store: the bridge serving one peer that sends game state, goal and
\* player messages.
NextStore ==
    \/ StartServer
    \/ ShutdownServer
    \/ ServerStep(1)
    \/ \E p \in Peers : PeerStep(p, StoreChunks, MaxReads)

SpecStore == Init /\ [][NextStore]_vars

\* Shutdown: the accept loop and the read loops of peers that deliver data,
\* each thread scheduled fairly.  A peer may close its end at any time; a
\* reset or a read error leaves the loop by the same break (see Spec).
LivePeer(p) ==
    \/ Attach(p)
    \/ LoopTest(p)
    \/ RecvTimeout(p)
    \/ RecvData(p, LiveChunks, 1)
    \/ RecvEnd(p, "eof")
    \/ HandleLine(p)
    \/ HandleReturn(p)
    \/ CallNext(p)
    \/ DispatchReturn(p)
    \/ Close(p)
    \/ Detach(p)

NextLive ==
    \/ StartServer
    \/ ShutdownServer
    \/ ServerStep(MaxPeers)
    \/ \E p \in Peers : LivePeer(p)

SpecLive ==
    /\ Init
    /\ [][NextLive]_vars
    /\ WF_vars(ServerStep(MaxPeers))
    /\ \A p \in Peers : WF_vars(LivePeer(p))

(***************************************************************************)
(* Claims about the decoder and the event bus.                             *)
(***************************************************************************)
\* The line that handle_message took up last in the chunk of peer p.
LastLine(p) == rd[p].chunk[rd[p].k]

\* The read loop of p is over.
Ended(p) == pc[p] \in {"close", "detach", "done"}

\* The categorization rule as the specification states it.
RuleType(m) ==
    LET pl == m.payload
    IN  CASE m.role = "server" /\ m.type = "event" /\ pl.kind = "object"
                /\ "category" \in DOMAIN pl.fields -> pl.fields["category"]
          [] m.role = "server" /\ m.type = "game_state" -> "game_state"
          [] m.role = "server" /\ m.type = "status" /\ pl.kind = "object"
                /\ "type" \in DOMAIN pl.fields /\ pl.fields["type"] = "performance"
                -> "performance"
          [] OTHER -> m.type

\* C1: every parsed envelope is dispatched as exactly one event, whose type
\* follows the categorization rule and whose data is the envelope's payload.
C1_Routing ==
    \A p \in Peers :
        hist[p].msg # None =>
            /\ hist[p].res # "raised"
            /\ hist[p].routed = [type |-> RuleType(hist[p].msg),
                                 data |-> hist[p].msg.payload]

\* The handlers registered for a type, in registration order.
TypedHandlers(t) == IF t \in DOMAIN handlers THEN handlers[t] ELSE <<>>

\* C2: a dispatch calls all global handlers in registration order, then the
\* handlers of its type in registration order, and no other handler.
C2_DispatchOrder ==
    \A p \in Peers :
        /\ hist[p].res = "returned" =>
              hist[p].trace = global_handlers \o TypedHandlers(hist[p].routed.type)
        /\ hist[p].res = "running" =>
              hist[p].trace =
                  SubSeq(global_handlers \o TypedHandlers(hist[p].routed.type),
                         1, Len(hist[p].trace))

\* A dispatch that called two global handlers and then two typed handlers.
C2_Witness ==
    \E p \in Peers :
        /\ hist[p].res = "returned"
        /\ Len(global_handlers) >= 1
        /\ Len(TypedHandlers(hist[p].routed.type)) >= 2
        /\ Len(hist[p].trace) >= 3

\* C3: when a handler of a dispatch fails, the handlers after it are still
\* called, the failure does not leave dispatch_message, and the connection
\* that delivered the event stays open.
C3_FaultIsolation ==
    \A p \in Peers :
        hist[p].failed > 0 =>
            /\ hist[p].res \in {"running", "returned"}
            /\ hist[p].res = "returned" =>
                  hist[p].trace =
                      global_handlers \o TypedHandlers(hist[p].routed.type)
            /\ hist[p].why # "exception"
            /\ pc[p] \in {"dispatch", "lines"} => sock[p] = "open"

\* A dispatch whose first handler failed and whose later handlers ran, the
\* read loop going on.
C3_Witness ==
    \E p \in Peers :
        /\ hist[p].failed > 0
        /\ hist[p].res = "returned"
        /\ Len(hist[p].trace) >= 2
        /\ CallHandler(hist[p].trace[1], store, hist[p].routed.data, now).raised
        /\ pc[p] = "poll"

\* A line that parses to an envelope, as the claim counts it.
WellFormed(line) == line.syntax = "object" /\ EnvelopeKeys \subseteq line.keys

\* C4: each line of a chunk is processed on its own and in order: a
\* malformed line causes no dispatch, and every well-formed line of the chunk
\* is dispatched; the example chunk ends with phase "warmup" and period 2.
C4_LinesIndependent ==
    \A p \in Peers :
        (pc[p] \notin {"lines", "dispatch"} /\ rd[p].reads > 0) =>
            /\ Len(hist[p].out) = Len(rd[p].chunk)
            /\ \A i \in 1..Len(hist[p].out) :
                  hist[p].out[i] =
                      IF WellFormed(rd[p].chunk[i]) THEN "dispatched" ELSE "skipped"
            /\ rd[p].chunk = ExampleChunk =>
                  store.game_state.phase = "warmup" /\ store.game_state.period = 2

\* A decode error: malformed JSON, a non-object payload or a missing key.
DecodeError(line) ==
    \/ line.syntax \in {"invalid", "value"}
    \/ line.syntax = "object" /\ ~(EnvelopeKeys \subseteq line.keys)
    \/ WellFormed(line) /\ line.payload.kind # "object"

\* C5: a decode error drops only its line: the lines after it are processed
\* and the read loop of the peer goes on.
C5_DecodeErrorDropsLine ==
    \A p \in Peers :
        (rd[p].k > 0 /\ DecodeError(LastLine(p))) =>
            /\ hist[p].why # "exception"
            /\ rd[p].k < Len(rd[p].chunk) => pc[p] \in {"lines", "dispatch"}

\* The message being dispatched comes later in the stream than the message
\* of the last handler call, or is that message.
InStreamOrder(p) ==
    \/ disp[p].seq > hist[p].seq
    \/ disp[p].seq = hist[p].seq /\ hist[p].trace # <<>>

\* C10: the events of a peer are dispatched in the order of its byte stream:
\* every handler of a message has been called before any handler of a later
\* message is.
C10_StreamOrder ==
    \A p \in Peers : pc[p] = "dispatch" => InStreamOrder(p)

\* A message of the second chunk being dispatched after a handler of a
\* message of the first chunk was called.
C10_Witness ==
    \E p \in Peers :
        /\ pc[p] = "dispatch"
        /\ rd[p].reads = 2
        /\ hist[p].seq > 0
        /\ hist[p].seq <= rd[p].base
        /\ disp[p].seq > rd[p].base + 1

(***************************************************************************)
(* Claims about the connection manager.                                    *)
(***************************************************************************)
\* The thread of p has made p the current peer.
Attached(p) == pc[p] \notin {"unborn", "spawned"}

\* What a send_command call recorded as r must have done.
SendResultOK(r) ==
    /\ ~r.raised
    /\ r.target = NoConn => ~r.ret /\ ~r.wrote /\ r.after = NoConn
    /\ (r.target # NoConn /\ r.outcome = "write_error") =>
          ~r.ret /\ r.after = NoConn
    /\ r.ret => r.wrote /\ r.target # NoConn /\ r.outcome = "sent"

\* C6: send_command never raises; without a peer it returns False and writes
\* nothing; when the write fails it returns False and clears the current
\* peer, and is_connected() stays False until another peer attaches; it
\* returns True only after a write to the peer that was current.
C6_SendCommand ==
    /\ [](app.last.called => SendResultOK(app.last))
    /\ [][(~is_connected /\ is_connected') =>
             (pc[current_connection'] = "spawned" /\ Attached(current_connection)')]_vars

\* A send to an attached peer has failed, and no peer is attached now.
C6_Witness ==
    /\ app.last.called
    /\ app.last.target # NoConn
    /\ app.last.outcome = "write_error"
    /\ ~app.last.ret
    /\ ~is_connected

\* C7: once peers 1 and 2, accepted in this order, are both attached, the
\* current connection is never peer 1.
C7_NewestPeerIsCurrent ==
    (Attached(1) /\ Attached(2)) => current_connection # 1

\* The accept loop and every read loop have ended.
Stopped ==
    /\ server_pc \in {"idle", "done"}
    /\ \A p \in Peers : pc[p] \in {"unborn", "done"}

\* C8: once the shutdown flag is set, the accept loop and every read loop
\* end; a loop that has seen the flag set starts no new accept or receive.
C8_Shutdown ==
    /\ shutdown_flag ~> Stopped
    /\ [][\A p \in Peers :
             (pc[p] = "loop" /\ shutdown_flag) => pc'[p] # "poll"]_vars
    /\ [][(server_pc = "loop" /\ shutdown_flag) => server_pc' # "select"]_vars

\* Shutdown has ended the accept loop and the read loops of two peers, one
\* of which had delivered an event.
C8_Witness ==
    /\ shutdown_flag
    /\ server_pc = "done"
    /\ \A p \in {1, 2} : pc[p] = "done" /\ hist[p].why = "shutdown"
    /\ \E p \in Peers : hist[p].res = "returned"

\* C9: a transport error ends at most the read loop of the peer it hit,
\* which is then no longer the current peer; the accept loop keeps listening
\* until shutdown.
C9_TransportErrorsNonFatal ==
    /\ server_pc = "done" => shutdown_flag
    /\ \A p \in Peers : pc[p] = "done" => current_connection # p

(***************************************************************************)
(* The game-state store.                                                   *)
(***************************************************************************)
\* This step is the call of handler h by the dispatch of peer p; the data it
\* is called with is disp[p].data.
Calls(p, h) ==
    /\ pc[p] = "dispatch"
    /\ hist'[p].trace = Append(hist[p].trace, h)

\* The value a game_state payload carries for a field of GameState, if any.
Carries(f, field) ==
    CASE field = "blue_score" -> "scores" \in DOMAIN f /\ "blue" \in DOMAIN f["scores"]
      [] field = "red_score" -> "scores" \in DOMAIN f /\ "red" \in DOMAIN f["scores"]
      [] OTHER -> field \in DOMAIN f

Carried(f, field) ==
    CASE field = "blue_score" -> f["scores"]["blue"]
      [] field = "red_score" -> f["scores"]["red"]
      [] OTHER -> f[field]

MergedFields == {"phase", "time", "period", "blue_score", "red_score"}

\* C11: an update_game_state call sets each of phase, time, period,
\* blue_score and red_score to the value its payload carries for it and
\* leaves it alone when the payload carries none (unknown fields are
\* ignored); no step other than a game_state or goal_scored handler call
\* changes any of them, and a goal_scored call changes scores only.
C11_PartialMerge ==
    [][\A p \in Peers :
         /\ (Calls(p, "builtin:game_state") /\ disp[p].data.kind = "object") =>
               \A field \in MergedFields :
                  store'.game_state[field] =
                     IF Carries(disp[p].data.fields, field)
                     THEN Carried(disp[p].data.fields, field)
                     ELSE store.game_state[field]
         /\ Calls(p, "builtin:goal_scored") =>
               \A field \in {"phase", "time", "period"} :
                  store'.game_state[field] = store.game_state[field]
         /\ (\A q \in Peers : ~Calls(q, "builtin:game_state")
                              /\ ~Calls(q, "builtin:goal_scored")) =>
               \A field \in MergedFields :
                  store'.game_state[field] = store.game_state[field]]_vars

\* Two chunks, warmup / blue 2 and then red 3, have been merged: the phase
\* and the blue score of the first survive the second.
C11_Witness ==
    /\ store.game_state.phase = "warmup"
    /\ store.game_state.blue_score = 2
    /\ store.game_state.red_score = 3
    /\ store.game_state.period = 0

(***************************************************************************)
(* The roster.                                                             *)
(***************************************************************************)
PlayerHandlers ==
    {"builtin:player_spawned", "builtin:player_state_changed",
     "builtin:player_property_changed"}

\* The Player fields an event names: those of its player object, plus state
\* for a state change and the named property for a property change.
Named(h, f) ==
    (IF "player" \in DOMAIN f THEN DOMAIN f["player"] ELSE {})
    \cup (IF h = "builtin:player_state_changed" THEN {"state"} ELSE {})
    \cup (IF h = "builtin:player_property_changed" /\ "property" \in DOMAIN f
          THEN {f["property"]} ELSE {})

\* The client id an event names.
ClientOf(h, f) ==
    IF h \in {"builtin:player_spawned", "builtin:player_despawned"}
    THEN f["player"]["clientId"] ELSE f["clientId"]

\* C12: a despawn of id leaves the roster without id and changes nothing
\* when id is absent; a player event for an id that is not in the roster
\* creates a record whose fields are the defaults except those the event
\* names, whatever a removed record of that id held.
C12_PlayerLifecycle ==
    [][\A p \in Peers :
         /\ Calls(p, "builtin:player_despawned") =>
              LET id == ClientOf("builtin:player_despawned", disp[p].data.fields)
              IN  /\ id \notin DOMAIN store'.players
                  /\ \A i \in DOMAIN store'.roster : store'.roster[i] # id
                  /\ id \notin DOMAIN store.players => store' = store
         /\ \A h \in PlayerHandlers :
              Calls(p, h) =>
                LET f == disp[p].data.fields
                    id == ClientOf(h, f)
                IN  id \notin DOMAIN store.players =>
                      /\ id \in DOMAIN store'.players
                      /\ \A k \in PlayerFields \ Named(h, f) :
                            store'.players[id][k] = NewPlayer(id, now)[k]]_vars

\* Player 1 was spawned as "ann" with 2 goals after nobody, removed, and
\* created again by a state change: it is a default record at the end of
\* the roster.
C12_Witness ==
    /\ store.roster = <<2, 3, 1>>
    /\ store.players[1].username = "unknown"
    /\ store.players[1].goals = 0

\* The Player fields an event carries a value for: those of its player
\* object, state when it has a newState, the named property when it has one.
CarriedFields(h, f) ==
    (IF "player" \in DOMAIN f THEN DOMAIN f["player"] ELSE {})
    \cup (IF h = "builtin:player_state_changed" /\ "newState" \in DOMAIN f
          THEN {"state"} ELSE {})
    \cup (IF h = "builtin:player_property_changed" /\ "property" \in DOMAIN f
          THEN {f["property"]} ELSE {})

\* C13: a player event applied to an existing player leaves every Player
\* field it carries no value for as it was, the state included when a state
\* change has no newState.
C13_LastWriteWins ==
    [][\A p \in Peers : \A h \in PlayerHandlers :
         Calls(p, h) =>
            LET f == disp[p].data.fields
                id == ClientOf(h, f)
            IN  id \in DOMAIN store.players =>
                  \A k \in PlayerFields \ CarriedFields(h, f) :
                     store'.players[id][k] = store.players[id][k]]_vars

\* C14: blue_score and red_score are never negative.
C14_ScoresNonNegative ==
    /\ store.game_state.blue_score >= 0
    /\ store.game_state.red_score >= 0

\* C15: after a call of the goal_scored handler the last-goal data is the
\* payload of that event, and the scores the payload carries are the scores
\* of the store.
C15_GoalRecorded ==
    [][\A p \in Peers :
         Calls(p, "builtin:goal_scored") =>
            /\ store'.last_goal_data = disp[p].data
            /\ disp[p].data.kind = "object" =>
                 \A field \in {"blue_score", "red_score"} :
                    Carries(disp[p].data.fields, field) =>
                       store'.game_state[field] =
                          Carried(disp[p].data.fields, field)]_vars

(***************************************************************************)
(* The derived queries.                                                    *)
(***************************************************************************)
Vocabulary ==
    {"playing", "faceoff", "bluescore", "redscore", "replay", "warmup",
     "periodover", "none", "gameover"}

\* No phase predicate other than is_game_active is true of the store.
NoOtherPredicate(s) ==
    /\ ~is_game_in_progress(s)
    /\ ~is_game_paused(s)
    /\ ~is_period_over(s)
    /\ ~is_game_over(s)
    /\ ~is_warmup(s)
    /\ ~is_scoring_phase(s)

\* C16 as stated: for a phase outside the vocabulary, "unknown" included,
\* every phase predicate is false.
C16_UnrecognizedFailsAll ==
    get_game_phase(store) \notin Vocabulary =>
        NoOtherPredicate(store) /\ ~is_game_active(store)

\* C16 as amended: for a phase whose lower-case form is outside the
\* vocabulary, "unknown" included, every phase predicate is false except
\* is_game_active, which is true.
C16_UnrecognizedActiveOnly ==
    Lower(get_game_phase(store)) \notin Vocabulary =>
        NoOtherPredicate(store) /\ is_game_active(store)

\* The store holds a phase the game sent that is not in the vocabulary.
C16_Witness ==
    /\ get_game_phase(store) = "Intermission"
    /\ store.game_state.time = 5

\* C17: get_leading_team is "tied" exactly when the scores are equal, "blue"
\* exactly when blue_score is greater and "red" otherwise;
\* get_score_difference is the distance between the scores, never negative,
\* and 0 exactly when the teams are tied.
C17_LeadingTeam ==
    LET b == store.game_state.blue_score
        r == store.game_state.red_score
        lead == get_leading_team(store)
        diff == get_score_difference(store)
    IN  /\ (lead = "tied") <=> (b = r)
        /\ (lead = "blue") <=> (b > r)
        /\ (lead = "red") <=> (b < r)
        /\ diff >= 0
        /\ diff = (IF b > r THEN b - r ELSE r - b)
        /\ (diff = 0) <=> (lead = "tied")

\* Red leads by one: blue 2, red 3.
C17_Witness ==
    /\ store.game_state.blue_score = 2
    /\ store.game_state.red_score = 3
    /\ get_leading_team(store) = "red"
    /\ get_score_difference(store) = 1

\* The position of a player in the roster.
Pos(id) == CHOOSE i \in DOMAIN store.roster : store.roster[i] = id

\* x comes before y among the scorers: more goals, or as many and earlier
\* in the roster.
Before(x, y) ==
    \/ x.goals > y.goals
    \/ x.goals = y.goals /\ Pos(x.client_id) < Pos(y.client_id)

\* C18: get_top_scorers(N), N >= 0, is the first min(N, roster size) players
\* of the roster ordered by goals descending, players with equal goals in
\* roster order.
C18_TopScorers ==
    \A N \in 0..MaxLimit :
       LET top == get_top_scorers(store, N)
           ids == { top[i].client_id : i \in DOMAIN top }
       IN  /\ Len(top) = (IF N < Len(store.roster) THEN N ELSE Len(store.roster))
           /\ \A i \in DOMAIN top :
                 /\ top[i].client_id \in DOMAIN store.players
                 /\ top[i] = store.players[top[i].client_id]
           /\ \A i, j \in DOMAIN top : i < j => Before(top[i], top[j])
           /\ \A id \in DOMAIN store.players \ ids :
                 \A i \in DOMAIN top : Before(top[i], store.players[id])

\* Goals 2, 2, 5 in roster order: the top two are player 3 and then player
\* 1, the earlier of the tied pair.
C18_Witness ==
    /\ store.roster = <<1, 2, 3>>
    /\ store.players[1].goals = 2 /\ store.players[2].goals = 2
    /\ store.players[3].goals = 5
    /\ get_top_scorers(store, 2) = <<store.players[3], store.players[1]>>

(***************************************************************************)
(* The handler registry.                                                   *)
(***************************************************************************)
\* How many times x occurs in seq.
Count(seq, x) == Cardinality({ i \in DOMAIN seq : seq[i] = x })

\* new is old without its first x, the others in their order; old itself
\* when x does not occur in it.
FirstRemoved(old, x, new) ==
    IF Count(old, x) = 0
    THEN new = old
    ELSE \E i \in DOMAIN old :
            /\ old[i] = x
            /\ \A j \in 1..(i - 1) : old[j] # x
            /\ Len(new) = Len(old) - 1
            /\ \A j \in DOMAIN new : new[j] = IF j < i THEN old[j] ELSE old[j + 1]

\* A handler and a type nobody registered.
Stranger == "stranger"
NoSuchType == "no_such_type"

\* C19: registration appends, also a handler that is registered already; a
\* dispatch calls a handler as many times as it is registered globally and
\* for the type; unregister removes the first instance only and keeps the
\* others in order; it changes nothing when the handler or the type is
\* absent.
C19_RegistryMultiset ==
    /\ \A p \in Peers : \A h \in UserHandlers :
          hist[p].res = "returned" =>
             Count(hist[p].trace, h) =
                Count(global_handlers, h)
                + Count(TypedHandlers(hist[p].routed.type), h)
    /\ \A h \in UserHandlers \cup {Stranger} :
          /\ register_global_handler(global_handlers, h) =
                global_handlers \o <<h>>
          /\ FirstRemoved(global_handlers, h,
                          unregister_global_handler(global_handlers, h))
          /\ unregister_handler(handlers, NoSuchType, h) = handlers
          /\ \A t \in RegTypes :
                /\ register_handler(handlers, t, h) =
                      [handlers EXCEPT ![t] = TypedHandlers(t) \o <<h>>]
                /\ FirstRemoved(TypedHandlers(t), h,
                                unregister_handler(handlers, t, h)[t])
                /\ \A u \in DOMAIN handlers \ {t} :
                      unregister_handler(handlers, t, h)[u] = handlers[u]

\* observer is registered twice globally with faulty in between, and a
\* dispatch has called it twice.
C19_Witness ==
    /\ global_handlers = <<"observer", "faulty", "observer">>
    /\ \E p \in Peers :
          /\ hist[p].res = "returned"
          /\ Count(hist[p].trace, "observer") = 2

(***************************************************************************)
(* The outbound command envelope.                                          *)
(***************************************************************************)
\* The fields of the caller's map: none for None.
CallerFields(payload) == IF payload = None THEN {} ELSE DOMAIN payload

\* C20: a successful send_command writes an envelope of role "client" and
\* type "command" whose payload has the name argument as its command field
\* and every field of the caller's map; only the command field for a None
\* payload.
C20_CommandEnvelope ==
    app.last.wrote =>
       LET e == app.last.envelope
       IN  /\ e.role = "client"
           /\ e.type = "command"
           /\ e.payload["command"] = app.last.name
           /\ CallerFields(app.last.payload) \subseteq DOMAIN e.payload
           /\ app.last.payload = None => DOMAIN e.payload = {"command"}

\* What send_command writes: every field of the caller's map with the
\* caller's value, and the name argument as the command field only when the
\* map has no field named command; nothing else.
CallerFieldsWin ==
    app.last.wrote =>
       LET e == app.last.envelope
           given == CallerFields(app.last.payload)
       IN  /\ e.role = "client"
           /\ e.type = "command"
           /\ DOMAIN e.payload = given \cup {"command"}
           /\ \A k \in given : e.payload[k] = app.last.payload[k]
           /\ "command" \notin given => e.payload["command"] = app.last.name


(***************************************************************************)
(* GameStateManager.is_connected and the passing of time.                  *)
(***************************************************************************)
MaxClock == 60

\* The seconds within which an update counts as recent.
RecentSeconds == 30

\* GameStateManager.is_connected at time t.  last_updated is never None:
\* the dataclasses fill it with datetime.now() when the store is built.
store_is_connected(s, t) ==
    LET game_state_age == t - s.game_state.last_updated
        perf_age == t - s.performance.last_updated
    IN  \/ game_state_age < RecentSeconds
        \/ perf_age < RecentSeconds
        \/ Cardinality(DOMAIN s.players) > 0

\* The clock is seen to advance by a quarter of a minute at a time.
Tick ==
    /\ \E d \in {15} : now + d <= MaxClock /\ now' = now + d
    /\ UNCHANGED <<shutdown_flag, current_connection, server_pc, accepted, handlers,
                   global_handlers, store, pc, sock, rd, disp, hist, app>>

ClockChunks == {<<WarmupLine>>, <<PerfLine>>, <<Spawn1>>, <<Despawn1>>}

\* The store over time: one peer delivers game state, performance and player
\* messages while the clock advances.
SpecClock ==
    /\ Init
    /\ [][\/ StartServer
          \/ ShutdownServer
          \/ ServerStep(1)
          \/ \E p \in Peers : PeerStep(p, ClockChunks, MaxReads)
          \/ Tick]_vars

\* No peer has delivered anything: no update was ever applied to the store.
NoUpdateEver == \A p \in Peers : rd[p].reads = 0

\* C21: the store reports connected when it tracks a player; it reports not
\* connected when it tracks none and neither section was updated in the last
\* 30 seconds, and when it tracks none and no update was ever applied.
C21_StoreConnected ==
    /\ store.roster # <<>> => store_is_connected(store, now)
    /\ ( /\ store.roster = <<>>
         /\ now - store.game_state.last_updated >= RecentSeconds
         /\ now - store.performance.last_updated >= RecentSeconds )
       => ~store_is_connected(store, now)
    /\ (store.roster = <<>> /\ NoUpdateEver) => ~store_is_connected(store, now)

\* The conjuncts of C21 that do not speak of a store that was never updated.
C21_RecentOrTracked ==
    /\ store.roster # <<>> => store_is_connected(store, now)
    /\ ( /\ store.roster = <<>>
         /\ now - store.game_state.last_updated >= RecentSeconds
         /\ now - store.performance.last_updated >= RecentSeconds )
       => ~store_is_connected(store, now)


(***************************************************************************)
(* Claims about the exit of read loops.                                    *)
(***************************************************************************)
\* The thread of p runs the last lines of _handle_client in this step.
Exits(p) == pc[p] = "detach" /\ pc'[p] = "done"

\* C22: a read loop that ends clears the current-peer reference only if its
\* peer is still the current one: the exit of a superseded peer leaves the
\* newer current peer attached, so is_connected() stays True and
\* send_command keeps its target.
C22_SupersededExit ==
    [][\A p \in Peers :
          Exits(p) =>
             /\ current_connection = p => current_connection' = NoConn
             /\ current_connection # p =>
                   /\ current_connection' = current_connection
                   /\ is_connected' = is_connected]_vars

\* A peer's loop has exited while another peer, attached and still polling,
\* is the current one.
C22_Witness ==
    \E p, q \in Peers :
        /\ p # q
        /\ pc[p] = "done"
        /\ current_connection = q
        /\ pc[q] = "poll"
        /\ sock[q] = "open"
        /\ is_connected


(***************************************************************************)
(* The store under two read loops.  GameStateManager takes no lock, so the *)
(* lines of update_player and remove_player run by the handler thread of   *)
(* one peer interleave with those run by the thread of another.  A call is *)
(* taken a line at a time: the membership test, the insertion, the lookup  *)
(* of `player`, and the loop of setattr calls with the time stamp.         *)
(***************************************************************************)
\* Another thread's `player` refers to a record of client_id that the dict
\* no longer holds once thread p has replaced or deleted the entry.
Orphan(d, p, client_id) ==
    [q \in Peers |->
        IF q # p /\ d[q].call.step = "merge" /\ d[q].call.id = client_id
        THEN [d[q] EXCEPT !.call.orphan = TRUE]
        ELSE d[q]]

\* The handler called by dispatch_message returns to it, or raises into its
\* try/except.
StoreCallEnds(p, n, raised) ==
    hist' = [hist EXCEPT ![p].trace = Append(@, n.h),
                         ![p].seq = disp[p].seq,
                         ![p].failed = IF raised THEN @ + 1 ELSE @]

\* _handle_player_spawned calling update_player(client_id, player_data).
UpdatePlayerStep(p) ==
    /\ pc[p] = "dispatch"
    /\ LET n == NextHandler(disp[p], global_handlers, handlers)
           c == disp[p].call
           player_data == disp[p].data.fields["player"]
           client_id == player_data["clientId"]
           at(step) == [disp EXCEPT ![p].call =
                           [step |-> step, id |-> client_id, orphan |-> FALSE]]
           back == [disp EXCEPT ![p].stage = n.stage, ![p].i = n.i,
                                ![p].call = NoCall]
       IN  /\ n.h = "builtin:player_spawned"
           /\ disp[p].data.kind = "object"
           /\ "player" \in DOMAIN disp[p].data.fields
           /\ "clientId" \in DOMAIN player_data
           /\ CASE c.step = "none" ->      \* if client_id not in self.players
                     /\ disp' = at(IF client_id \in DOMAIN store.players
                                   THEN "fetch" ELSE "insert")
                     /\ UNCHANGED <<store, hist>>
                [] c.step = "insert" ->    \* self.players[client_id] = Player(..)
                     /\ store' = [store EXCEPT
                           !.players = (client_id :> NewPlayer(client_id, now)) @@ @,
                           !.roster = IF client_id \in DOMAIN store.players
                                      THEN @ ELSE Append(@, client_id)]
                     /\ disp' = Orphan(at("fetch"), p, client_id)
                     /\ UNCHANGED hist
                [] c.step = "fetch" ->     \* player = self.players[client_id]
                     IF client_id \in DOMAIN store.players
                     THEN /\ disp' = at("merge")
                          /\ UNCHANGED <<store, hist>>
                     ELSE /\ disp' = back              \* KeyError
                          /\ StoreCallEnds(p, n, TRUE)
                          /\ UNCHANGED store
                [] c.step = "merge" ->     \* the setattr loop and last_updated
                     /\ store' = IF c.orphan
                                 THEN store
                                 ELSE update_player(store, client_id,
                                                    player_data, now).store
                     /\ disp' = back
                     /\ StoreCallEnds(p, n, FALSE)
    /\ UNCHANGED <<shutdown_flag, current_connection, server_pc, accepted, handlers,
                   global_handlers, now, pc, sock, rd, app>>

\* _handle_player_despawned calling remove_player(client_id).
RemovePlayerStep(p) ==
    /\ pc[p] = "dispatch"
    /\ LET n == NextHandler(disp[p], global_handlers, handlers)
           c == disp[p].call
           player_data == disp[p].data.fields["player"]
           client_id == player_data["clientId"]
           back == [disp EXCEPT ![p].stage = n.stage, ![p].i = n.i,
                                ![p].call = NoCall]
       IN  /\ n.h = "builtin:player_despawned"
           /\ disp[p].data.kind = "object"
           /\ "player" \in DOMAIN disp[p].data.fields
           /\ "clientId" \in DOMAIN player_data
           /\ CASE c.step = "none" ->      \* if client_id in self.players
                     IF client_id \in DOMAIN store.players
                     THEN /\ disp' = [disp EXCEPT ![p].call =
                                         [step |-> "del", id |-> client_id,
                                          orphan |-> FALSE]]
                          /\ UNCHANGED <<store, hist>>
                     ELSE /\ disp' = back
                          /\ StoreCallEnds(p, n, FALSE)
                          /\ UNCHANGED store
                [] c.step = "del" ->       \* del self.players[client_id]
                     IF client_id \in DOMAIN store.players
                     THEN /\ store' = remove_player(store, client_id).store
                          /\ disp' = Orphan(back, p, client_id)
                          /\ StoreCallEnds(p, n, FALSE)
                     ELSE /\ disp' = back              \* KeyError
                          /\ StoreCallEnds(p, n, TRUE)
                          /\ UNCHANGED store
    /\ UNCHANGED <<shutdown_flag, current_connection, server_pc, accepted, handlers,
                   global_handlers, now, pc, sock, rd, app>>

\* Each game client reports on player 1: one knows the name, one the goals,
\* and either may report that the player left.
RaceChunks ==
    { <<Event("player_spawned", [player |-> [clientId |-> 1, username |-> "ann"]])>>,
      <<Event("player_spawned", [player |-> [clientId |-> 1, goals |-> 2]])>>,
      <<Despawn1>> }

\* The read loop of a peer whose player events are handled a line of the
\* store's code at a time.
RacePeer(p) ==
    \/ Attach(p)
    \/ LoopTest(p)
    \/ RecvData(p, RaceChunks, 1)
    \/ RecvEnd(p, "eof")
    \/ HandleLine(p)
    \/ HandleReturn(p)
    \/ UpdatePlayerStep(p)
    \/ RemovePlayerStep(p)
    \/ DispatchReturn(p)
    \/ Close(p)
    \/ Detach(p)

SpecRace ==
    /\ Init
    /\ [][\/ StartServer
          \/ ServerStep(MaxPeers)
          \/ \E p \in Peers : RacePeer(p)]_vars

(***************************************************************************)
(* Claims about the store under concurrent read loops.                     *)
(***************************************************************************)
\* The threads that stand inside update_player or remove_player.
InsideStore == { p \in Peers : disp[p].call.step # "none" }

MutualExclusion == Cardinality(InsideStore) <= 1

\* No update_player or remove_player call has raised.
NoCallFails == \A p \in Peers : hist[p].failed = 0

\* The message of p was a spawn event and its handler call has returned.
Spawned(p) ==
    /\ hist[p].routed # None
    /\ hist[p].routed.type = "player_spawned"
    /\ hist[p].trace = <<"builtin:player_spawned">>
    /\ hist[p].failed = 0

\* Whenever the spawn events of all peers that delivered one have been
\* applied, and no peer delivered a despawn, the record of the player holds
\* every field that exactly one of the events carries.
NoMergedFieldLost ==
    ( /\ \A p \in Peers : hist[p].routed # None => Spawned(p)
      /\ \E p \in Peers : Spawned(p) )
    => /\ 1 \in DOMAIN store.players
       /\ \A p \in Peers : Spawned(p) =>
             LET f == hist[p].routed.data.fields["player"]
             IN  \A k \in (DOMAIN f) \cap PlayerFields :
                    (\A q \in Peers \ {p} :
                        Spawned(q) => k \notin DOMAIN hist[q].routed.data.fields["player"])
                    => store.players[1][k] = f[k]

\* C23: at most one thread at a time is inside a mutation of the store, so
\* update_player and remove_player calls for one player made by two read
\* loops neither fail nor lose a field that one of them merged.
C23_StoreMutuallyExclusive ==
    /\ MutualExclusion
    /\ NoCallFails
    /\ NoMergedFieldLost


(***************************************************************************)
(* The roster: one peer sends player events, among them events that name   *)
(* no client, events that name the identifier as a property or carry       *)
(* another identifier in their player object, and a spawn whose player is  *)
(* null.                                                                   *)
(***************************************************************************)
RosterChunks ==
    { <<Spawn1>>, <<Despawn1>>, <<State1>>, <<Prop2>>,
      <<Event("player_property_changed",
              [clientId |-> 1, property |-> "client_id", newValue |-> 9]),
        Event("player_state_changed",
              [clientId |-> 1, newState |-> "bench",
               player |-> [clientId |-> 2, client_id |-> 2, goals |-> 4]])>>,
      <<Event("player_spawned", [player |-> [username |-> "bob"]]),
        Event("player_despawned", [player |-> [username |-> "ann"]]),
        Event("player_spawned", NoFields),
        Event("player_despawned", NoFields),
        Event("player_state_changed", [newState |-> "bench"]),
        Event("player_property_changed", [property |-> "goals", newValue |-> 3])>>,
      <<Event("player_spawned", [player |-> JNull])>> }

SpecRoster ==
    /\ Init
    /\ [][\/ StartServer
          \/ ShutdownServer
          \/ ServerStep(1)
          \/ \E p \in Peers : PeerStep(p, RosterChunks, MaxReads)]_vars

(***************************************************************************)
(* Claims about the roster.                                                *)
(***************************************************************************)
\* C24: the record stored under an id carries that id as its client
\* identifier, and no step changes the client identifier of a record,
\* whatever property a property change names and whatever identifier the
\* player object of an event carries.
C24_ClientIdFixed ==
    /\ [](\A id \in DOMAIN store.players : store.players[id].client_id = id)
    /\ [][\A id \in DOMAIN store.players \cap DOMAIN store'.players :
             store'.players[id].client_id = store.players[id].client_id]_vars

\* The state change that carries identifier 2 in its player object has been
\* applied to player 1, after the property change that names client_id.
C24_Witness ==
    \E p \in Peers :
        /\ hist[p].routed # None
        /\ hist[p].routed.type = "player_state_changed"
        /\ hist[p].routed.data.fields["clientId"] = 1
        /\ "player" \in DOMAIN hist[p].routed.data.fields
        /\ hist[p].routed.data.fields["player"]["clientId"] = 2
        /\ hist[p].trace = <<"builtin:player_state_changed">>
        /\ DOMAIN store.players = {1}
        /\ store.players[1].goals = 4
        /\ store.players[1].client_id = 1


\* The handlers of the four player events.
RosterHandlers == PlayerHandlers \cup {"builtin:player_despawned"}

\* The event names a client: payload.player.clientId for a spawn or a
\* despawn, payload.clientId for a state or property change.
HasClient(h, f) ==
    IF h \in {"builtin:player_spawned", "builtin:player_despawned"}
    THEN /\ "player" \in DOMAIN f
         /\ f["player"] # JNull
         /\ "clientId" \in DOMAIN f["player"]
    ELSE "clientId" \in DOMAIN f

\* C25: a player event that names no client is ignored, the store is left as
\* it was and its handler does not raise; one that names a client leaves
\* that player in the roster, or out of it when it is a despawn.
C25_ClientRequired ==
    [][\A p \in Peers : \A h \in RosterHandlers :
          Calls(p, h) =>
             LET f == disp[p].data.fields
             IN  IF HasClient(h, f)
                 THEN (ClientOf(h, f) \in DOMAIN store'.players)
                         <=> (h # "builtin:player_despawned")
                 ELSE /\ store' = store
                      /\ hist'[p].failed = hist[p].failed]_vars

\* C25 for the events whose player member, when present, is a map.
C25_MapsOnly ==
    [][\A p \in Peers : \A h \in RosterHandlers :
          (Calls(p, h) /\ ("player" \in DOMAIN disp[p].data.fields
                             => disp[p].data.fields["player"] # JNull)) =>
             LET f == disp[p].data.fields
             IN  IF HasClient(h, f)
                 THEN (ClientOf(h, f) \in DOMAIN store'.players)
                         <=> (h # "builtin:player_despawned")
                 ELSE /\ store' = store
                      /\ hist'[p].failed = hist[p].failed]_vars


(***************************************************************************)
(* The byte stream of a peer and the socket reads that deliver it.  recv   *)
(* returns whatever bytes have arrived: a read may end between two lines   *)
(* or inside one.  _handle_client decodes and strips each read and gives   *)
(* it to handle_message, which splits it at the newlines; nothing is kept  *)
(* from one read to the next.                                              *)
(***************************************************************************)
\* What json.loads makes of a piece of a line cut in two by a read boundary:
\* neither the beginning nor the rest of the text of a JSON object is a JSON
\* text.
Piece(line) == IF line.syntax = "object" THEN BadJsonLine ELSE line

\* The ways in which one or two reads deliver a stream: at once, cut between
\* two lines, or cut inside a line.
Splittings(stream) ==
    {<<stream>>}
    \cup { <<SubSeq(stream, 1, i), SubSeq(stream, i + 1, Len(stream))>> :
             i \in 1..(Len(stream) - 1) }
    \cup { <<Append(SubSeq(stream, 1, i - 1), Piece(stream[i])),
             <<Piece(stream[i])>> \o SubSeq(stream, i + 1, Len(stream))>> :
             i \in 1..Len(stream) }

SplitStream == <<WarmupLine, PeriodLine>>

\* The splittings of the stream that agree with what peer p has read so far.
Pending(p) ==
    { sp \in Splittings(SplitStream) :
         /\ Len(sp) > rd[p].reads
         /\ rd[p].reads > 0 => sp[rd[p].reads] = rd[p].chunk }

\* The reads that may come next for peer p.
SplitReads(p) == { sp[rd[p].reads + 1] : sp \in Pending(p) }

SpecSplit ==
    /\ Init
    /\ [][\/ StartServer
          \/ ShutdownServer
          \/ ServerStep(1)
          \/ \E p \in Peers : PeerStep(p, SplitReads(p), MaxReads)]_vars

(***************************************************************************)
(* Claims about the reads of a stream.                                     *)
(***************************************************************************)
\* Peer p has been given the whole stream, and handle_message has returned
\* from its last read.
WholeStreamHandled(p) ==
    /\ rd[p].reads > 0
    /\ Pending(p) = {}
    /\ rd[p].k = Len(rd[p].chunk)
    /\ pc[p] \notin {"lines", "dispatch"}
    /\ hist[p].why \notin {"exception"}

\* C26: the events dispatched for a peer depend on its byte stream only, not
\* on the reads that deliver it: once the stream of the two game_state
\* lines has been handled, both lines have been applied to the store,
\* wherever the read boundary fell.
C26_SplitIndependent ==
    \A p \in Peers :
        WholeStreamHandled(p) =>
            /\ store.game_state.phase = "warmup"
            /\ store.game_state.period = 2

\* C26 for the reads that end between two lines.
C26_LineAligned ==
    \A p \in Peers :
        (WholeStreamHandled(p) /\ \A i \in DOMAIN rd[p].chunk :
                                     rd[p].chunk[i].syntax = "object") =>
            /\ store.game_state.phase = "warmup"
            /\ store.game_state.period = 2


(***************************************************************************)
(* Handlers that change the registry while a dispatch is running.  The     *)
(* application has registered, for game_state, a handler that unregisters  *)
(* itself followed by an observer, or a handler that registers an observer.*)
(***************************************************************************)
InitReentrant ==
    /\ shutdown_flag = FALSE
    /\ current_connection = NoConn
    /\ server_pc = "idle"
    /\ accepted = 0
    /\ handlers \in
          { register_handler(register_handler(InitHandlers, "game_state", "leaver"),
                             "game_state", "observer"),
            register_handler(InitHandlers, "game_state", "joiner") }
    /\ global_handlers = <<>>
    /\ now = 0
    /\ store = InitStore(0)
    /\ pc = [p \in Peers |-> "unborn"]
    /\ sock = [p \in Peers |-> "none"]
    /\ rd = [p \in Peers |-> [reads |-> 0, chunk |-> <<>>, k |-> 0, base |-> 0]]
    /\ disp = [p \in Peers |-> NoDispatch]
    /\ hist = [p \in Peers |-> InitHist]
    /\ app = [regs |-> 0, sends |-> 0, last |-> NoSend]

SpecReentrant ==
    /\ InitReentrant
    /\ [][\/ StartServer
          \/ ShutdownServer
          \/ ServerStep(1)
          \/ \E p \in Peers : PeerStep(p, LiveChunks, MaxReads)]_vars

(***************************************************************************)
(* Claims about a dispatch whose handlers change the registry.             *)
(***************************************************************************)
\* C27: when a dispatch has returned, every handler that was registered for
\* its type or globally when it began has been called as many times as it
\* was registered then: once for a handler registered once.
C27_SnapshotDispatch ==
    \A p \in Peers :
        hist[p].res = "returned" =>
            \A i \in DOMAIN hist[p].expected :
                Count(hist[p].trace, hist[p].expected[i])
                    >= Count(hist[p].expected, hist[p].expected[i])

\* C27 for the dispatches in which no handler unregisters a handler.
C27_NoRemoval ==
    \A p \in Peers :
        (hist[p].res = "returned" /\ \A i \in DOMAIN hist[p].trace :
                                        hist[p].trace[i] # "leaver") =>
            \A i \in DOMAIN hist[p].expected :
                Count(hist[p].trace, hist[p].expected[i])
                    >= Count(hist[p].expected, hist[p].expected[i])


(***************************************************************************)
(* Claims about the built-in handlers among the handlers of a type.        *)
(***************************************************************************)
\* C28: when a handler of the application is called for a message of a
\* canonical type, the built-in handler of the type has not been called yet
\* if it is called as a global handler, and has been called, once, if it is
\* called as a handler of the type: a global handler of the first message
\* sees the initial store, a handler of game_state sees the fields the
\* message carries in the store.
C28_BuiltinBetween ==
    [][\A p \in Peers : \A h \in UserHandlers :
          (Calls(p, h) /\ disp[p].type \in DOMAIN InitHandlers) =>
             LET builtin == "builtin:" \o disp[p].type
                 data == disp[p].data
             IN  IF disp'[p].stage = "global"
                 THEN /\ \A i \in DOMAIN hist[p].trace :
                            hist[p].trace[i] \in UserHandlers
                      /\ disp[p].seq = 1 => store = InitStore(0)
                 ELSE /\ Count(hist[p].trace, builtin) = 1
                      /\ (disp[p].type = "game_state" /\ data.kind = "object") =>
                            \A field \in MergedFields :
                               Carries(data.fields, field) =>
                                  store.game_state[field] =
                                     Carried(data.fields, field)]_vars

\* A game_state message has gone to a global handler, then to the built-in
\* handler, then to a handler of the application, which found the phase of
\* the message in the store.
C28_Witness ==
    \E p \in Peers :
        /\ hist[p].routed # None
        /\ hist[p].routed.type = "game_state"
        /\ Len(hist[p].trace) = 3
        /\ hist[p].trace[1] \in UserHandlers
        /\ hist[p].trace[2] = "builtin:game_state"
        /\ hist[p].trace[3] \in UserHandlers
        /\ hist[p].routed.data.kind = "object"
        /\ "phase" \in DOMAIN hist[p].routed.data.fields
        /\ store.game_state.phase = hist[p].routed.data.fields["phase"]


(***************************************************************************)
(* Claims about the peer the current-peer reference points at.             *)
(***************************************************************************)
\* C29: whenever the current-peer reference is attached, the socket of the
\* peer it points at has not been closed by the bridge and the thread of
\* that peer has not left the `with conn` block of its read loop.
C29_AttachedPeerOpen ==
    current_connection # NoConn =>
        /\ sock[current_connection] = "open"
        /\ pc[current_connection] \notin {"detach", "done"}

\* C29 outside the window between the close of the socket and the lines that
\* clear the reference: a peer whose thread has finished is not current.
C29_FinishedPeerNotCurrent ==
    current_connection # NoConn => pc[current_connection] # "done"


\* The thread of every accepted peer has run to its end.
AllExited ==
    /\ \E p \in Peers : pc[p] = "done"
    /\ \A p \in Peers : pc[p] \in {"unborn", "done"}

\* C30: once the thread of every accepted peer has ended, no peer is current
\* and is_connected() is False; a peer whose thread has ended is never the
\* current one; and once the shutdown flag is set it stays set and no thread
\* starts to wait for data, so that a peer whose thread starts after that
\* attaches and leaves without reading.
C30_ExitedMeansDetached ==
    /\ [](AllExited => (current_connection = NoConn /\ ~is_connected))
    /\ [](\A p \in Peers : pc[p] = "done" => current_connection # p)
    /\ [][shutdown_flag =>
             /\ shutdown_flag'
             /\ \A p \in Peers :
                   /\ pc'[p] = "poll" => pc[p] = "poll"
                   /\ (pc[p] = "spawned" /\ pc'[p] # "spawned") =>
                         (pc'[p] = "loop" /\ current_connection' = p)]_vars

\* The threads of two peers have ended, one of them by the shutdown flag,
\* after a send to an attached peer had failed; no peer is current.
C30_Witness ==
    /\ \A p \in Peers : pc[p] = "done"
    /\ \E p \in Peers : hist[p].why = "shutdown"
    /\ \E p \in Peers : hist[p].why \in {"eof", "reset", "error"}
    /\ app.last.called
    /\ app.last.target # NoConn
    /\ app.last.outcome = "write_error"
    /\ current_connection = NoConn


(***************************************************************************)
(* Claims about the failures of send_command.                              *)
(***************************************************************************)
\* The application thread runs send_command in this step.
Sends == app'.sends = app.sends + 1

\* C31: send_command detaches the current peer only when the write to the
\* socket fails: a call that fails before writing, because the envelope
\* cannot be built or serialized, returns False, raises nothing, writes
\* nothing and leaves the current peer and is_connected() as they were.
C31_DetachOnlyOnWriteFailure ==
    [][Sends =>
          /\ (current_connection # NoConn /\ current_connection' = NoConn) =>
                app'.last.outcome = "write_error"
          /\ app'.last.outcome = "build_error" =>
                /\ ~app'.last.ret
                /\ ~app'.last.raised
                /\ ~app'.last.wrote
                /\ current_connection' = current_connection
                /\ is_connected' = is_connected]_vars

\* What C31 says of the result of a call that fails before writing: False,
\* nothing raised, nothing written.
C31_BuildFailureReported ==
    [][(Sends /\ app'.last.outcome = "build_error") =>
          /\ ~app'.last.ret
          /\ ~app'.last.raised
          /\ ~app'.last.wrote]_vars

====
